---- MODULE Spec2Model ----
(***************************************************************************)
(* The client coordinator of libraries/client/client.cpp: the pending      *)
(* transaction map, the inbound handlers on_new_block / on_new_transaction *)
(* / handle_message, the item server (has_item, get_item_ids, get_item),   *)
(* the trustee block-production loop and the facade (set_chain,            *)
(* set_wallet, run_trustee, broadcast_transaction, ~client).               *)
(*                                                                         *)
(* The chain database, the wallet and the two transports are collaborators *)
(* whose code is outside client.cpp; they are modelled from their          *)
(* documented interfaces.                                                  *)
(***************************************************************************)
EXTENDS Integers, Sequences, FiniteSets, TLC

VARIABLES
  _chain_client,   \* TRUE iff the chain_client transport exists (ClientServer mode)
  _p2p_node,       \* TRUE iff the p2p node transport exists (Peer mode)
  _chain_db,       \* NULL or the identity of the bound chain database
  _wallet,         \* NULL or the identity of the bound wallet
  chain,           \* the blocks held by the database _chain_db points to
  _pending_trxs,   \* the mempool: transaction id -> signed transaction
  _last_block,     \* time of the last block this trustee produced
  now,             \* fc::time_point::now(), in seconds
  valid,           \* _trustee_loop_complete.valid(): number of run_trustee calls so far
  canceled,        \* _trustee_loop_complete.canceled()
  task,            \* task[i]: position and wake-up time of the i-th trustee_loop task
  phase,           \* "running", "stopping", "destroyed" or "crashed"
  last_produced,   \* history: the last block a trustee_loop pass produced, the task
                   \* that produced it and when; next: that task has not run since
  ret              \* what the last operation did and returned

configVars == <<_chain_client, _p2p_node>>
bindVars   == <<_chain_db, _wallet>>
loopVars   == <<valid, canceled, task>>
vars == <<_chain_client, _p2p_node, _chain_db, _wallet, chain, _pending_trxs,
          _last_block, now, valid, canceled, task, phase, last_produced, ret>>

----------------------------------------------------------------------------
(* Bounds of the model *)

\* well-formed transactions are 1..NumTrx; transaction 0 is malformed
NumTrx == 2
\* the chain is grown to at most this many blocks
MaxBlocks == 2
\* the clock runs to at most this many seconds
MaxTime == 62
\* run_trustee is called at most this many times
MaxRuns == 2
\* set_chain is given at most this many distinct databases
MaxChains == 2
\* the item server is asked about chains of at most this many blocks
MaxSyncBlocks == 4
\* get_item_ids is asked for at most this many ids
MaxLimit == 3
\* bits of the model's unsigned word, standing for the 32 of uint32_t
Width == 5

----------------------------------------------------------------------------
(* Program constants *)

\* fc::seconds(30), the production gate
GateSeconds == 30
\* fc::usleep(fc::seconds(1))
SleepSeconds == 1

NULL == 0

\* the clock moves in steps that land on both sides of the gate
ClockSteps == {GateSeconds, GateSeconds + SleepSeconds}

Trxs == 0..NumTrx

----------------------------------------------------------------------------
(* unsigned arithmetic of uint32_t, at the model's width *)

Modulus == 2 ^ Width
UINT32_MAX == Modulus - 1
\* faulty variant: a subtraction that stops at zero instead of wrapping around
Sub32_Saturating(a, b) == IF a < b THEN 0 ELSE a - b
Sub32(a, b) == (a - b + Modulus) % Modulus
Inc32(a) == (a + 1) % Modulus
Min(a, b) == IF a < b THEN a ELSE b

----------------------------------------------------------------------------
(* Hashes: item_hash_t() is the zero hash; id() is a collision-free digest  *)
(* of the hashed fields.                                                    *)

ZeroHash == <<>>
TrxId(trx) == <<"trx", trx>>
BlockId(b) == <<"blk", b.block_num, b.prev, b.timestamp, b.trxs>>

block_message_type == "block_message_type"
trx_message_type == "trx_message_type"

----------------------------------------------------------------------------
(* The chain database                                                       *)

RECURSIVE SeqToSet(_)
SeqToSet(s) == IF s = <<>> THEN {} ELSE {Head(s)} \cup SeqToSet(Tail(s))

ChainTrxs(db) == UNION {SeqToSet(db[i].trxs) : i \in 1..Len(db)}

head_block_num(db) == IF db = <<>> THEN UINT32_MAX ELSE Len(db) - 1
head_block_id(db) == IF db = <<>> THEN ZeroHash ELSE BlockId(db[Len(db)])
HeadTimestamp(db) == IF db = <<>> THEN 0 ELSE db[Len(db)].timestamp

\* fetch_block_num: the height of the block with this id (key_not_found when ~HasBlock)
HasBlock(db, hash) == \E i \in 1..Len(db) : BlockId(db[i]) = hash
fetch_block_num(db, hash) == (CHOOSE i \in 1..Len(db) : BlockId(db[i]) = hash) - 1
HasBlockNum(db, num) == num + 1 \in 1..Len(db)
fetch_block(db, num) == db[num + 1]

\* evaluate_transaction succeeds: the transaction is well formed and not yet in the chain
evaluate_transaction(db, trx) == trx # 0 /\ trx \notin ChainTrxs(db)

\* push_block succeeds: signed by the trustee, linked to the head, every transaction valid
push_block(db, b) ==
  /\ b.signed
  /\ b.block_num = Inc32(head_block_num(db))
  /\ b.prev = head_block_id(db)
  /\ Cardinality(SeqToSet(b.trxs)) = Len(b.trxs)
  /\ \A i \in 1..Len(b.trxs) : evaluate_transaction(db, b.trxs[i])

----------------------------------------------------------------------------
(* The mempool, a std::unordered_map                                        *)

EmptyMap == [k \in {} |-> 0]

\* faulty variant: an insert that overwrites the entry and always reports an addition
MapInsert_Overwrite(map, key, value) ==
  [map |-> [k \in DOMAIN map \cup {key} |-> IF k = key THEN value ELSE map[k]],
   second |-> TRUE]

\* insert(make_pair(key, value)): adds the pair unless the key is present;
\* .second tells whether it was added
MapInsert(map, key, value) ==
  IF key \in DOMAIN map
  THEN [map |-> map, second |-> FALSE]
  ELSE [map |-> [k \in DOMAIN map \cup {key} |-> IF k = key THEN value ELSE map[k]],
        second |-> TRUE]

\* erase(key): removes the entry if there is one
MapErase(map, key) == [k \in DOMAIN map \ {key} |-> map[k]]

\* faulty variant: an erase loop that stops after the first transaction
EraseAll_FirstOnly(map, trxs) ==
  IF trxs = <<>> THEN map ELSE MapErase(map, TrxId(Head(trxs)))

\* for (auto trx : block.trxs) _pending_trxs.erase(trx.id());
RECURSIVE EraseAll(_, _)
EraseAll(map, trxs) ==
  IF trxs = <<>> THEN map ELSE EraseAll(MapErase(map, TrxId(Head(trxs))), Tail(trxs))

\* the sequences without repetition that list the elements of a set
Orderings(S) ==
  {s \in UNION {[1..n -> S] : n \in {Cardinality(S)}} : SeqToSet(s) = S}

\* get_pending_transactions: the values of the map, in the map's iteration order
get_pending_transactions(map) == Orderings({map[k] : k \in DOMAIN map})

----------------------------------------------------------------------------
(* What an operation reports: the fields of ret                             *)
(*   op       the operation that ran                                        *)
(*   call     the handler it ran: "on_new_block", "on_new_transaction"      *)
(*   arg      the operation's (or the handler's) argument                   *)
(*   status   "ok", "throw" (an fc::exception left it) or "crash"           *)
(*   pushed   push_block accepted the block                                 *)
(*   erased   how many mempool entries the erase loop removed               *)
(*   scan     scan_chain: "none" (not called), "ok" or "throw"              *)
(*   inserted the .second of the mempool insert                             *)
(*   sent     what was handed to which transport                            *)
(*   value, remaining   the results of get_item_ids                         *)
(*   asserted assert(false) was reached (it aborts a debug build)           *)
(*   tick     what a trustee pass did: "idle", "produced", "failed", "exit" *)

NoRet ==
  [op |-> "none", call |-> "none", arg |-> <<>>, status |-> "ok",
   pushed |-> FALSE, erased |-> 0, scan |-> "none", inserted |-> FALSE,
   sent |-> <<>>, value |-> <<>>, remaining |-> 0, asserted |-> FALSE,
   tick |-> "none"]

----------------------------------------------------------------------------
(* client_impl::on_new_block and client_impl::on_new_transaction            *)
(* Each is the outcome of the call in the current state: the status         *)
(* ("ok", "throw" when an fc::exception leaves the call, "crash" when a     *)
(* null pointer is dereferenced) and the chain and mempool it leaves.       *)

\* faulty variant: the erase loop runs before push_block
on_new_block_EraseFirst(block, scan_ok) ==
  IF _chain_db = NULL
  THEN [status |-> "crash", chain |-> chain, pending |-> _pending_trxs,
        pushed |-> FALSE, erased |-> 0, scan |-> "none"]
  ELSE LET after == EraseAll(_pending_trxs, block.trxs)
           erased == Cardinality(DOMAIN _pending_trxs) - Cardinality(DOMAIN after)
       IN
       IF ~push_block(chain, block)
       THEN [status |-> "throw", chain |-> chain, pending |-> after,
             pushed |-> FALSE, erased |-> erased, scan |-> "none"]
       ELSE [status |-> IF _wallet = NULL THEN "crash" ELSE IF scan_ok THEN "ok" ELSE "throw",
             chain |-> Append(chain, block), pending |-> after,
             pushed |-> TRUE, erased |-> erased,
             scan |-> IF _wallet = NULL THEN "none" ELSE IF scan_ok THEN "ok" ELSE "throw"]

\* scan_ok: whether the wallet's scan_chain returns normally
on_new_block(block, scan_ok) ==
  IF _chain_db = NULL
  THEN [status |-> "crash", chain |-> chain, pending |-> _pending_trxs,
        pushed |-> FALSE, erased |-> 0, scan |-> "none"]
  ELSE IF ~push_block(chain, block)
  THEN [status |-> "throw", chain |-> chain, pending |-> _pending_trxs,
        pushed |-> FALSE, erased |-> 0, scan |-> "none"]
  ELSE LET after == EraseAll(_pending_trxs, block.trxs) IN
       [status |-> IF _wallet = NULL THEN "crash" ELSE IF scan_ok THEN "ok" ELSE "throw",
        chain |-> Append(chain, block), pending |-> after,
        pushed |-> TRUE,
        erased |-> Cardinality(DOMAIN _pending_trxs) - Cardinality(DOMAIN after),
        scan |-> IF _wallet = NULL THEN "none" ELSE IF scan_ok THEN "ok" ELSE "throw"]

\* faulty variant: the transaction is evaluated and logged but not stored
on_new_transaction_NoInsert(trx) ==
  IF _chain_db = NULL
  THEN [status |-> "crash", pending |-> _pending_trxs, inserted |-> FALSE]
  ELSE IF ~evaluate_transaction(chain, trx)
  THEN [status |-> "throw", pending |-> _pending_trxs, inserted |-> FALSE]
  ELSE [status |-> "ok", pending |-> _pending_trxs,
        inserted |-> TrxId(trx) \notin DOMAIN _pending_trxs]

\* faulty variant: the transaction is stored before it is evaluated
on_new_transaction_InsertFirst(trx) ==
  IF _chain_db = NULL
  THEN [status |-> "crash", pending |-> _pending_trxs, inserted |-> FALSE]
  ELSE LET r == MapInsert(_pending_trxs, TrxId(trx), trx) IN
       [status |-> IF evaluate_transaction(chain, trx) THEN "ok" ELSE "throw",
        pending |-> r.map, inserted |-> r.second]

on_new_transaction(trx) ==
  IF _chain_db = NULL
  THEN [status |-> "crash", pending |-> _pending_trxs, inserted |-> FALSE]
  ELSE IF ~evaluate_transaction(chain, trx)
  THEN [status |-> "throw", pending |-> _pending_trxs, inserted |-> FALSE]
  ELSE LET r == MapInsert(_pending_trxs, TrxId(trx), trx) IN
       [status |-> "ok", pending |-> r.map, inserted |-> r.second]

\* the state after a call that ended with this status
Outcome(status) == IF status = "crash" THEN "crashed" ELSE phase

----------------------------------------------------------------------------
(* Inputs                                                                   *)

\* the lists of distinct well-formed transactions
GoodLists == UNION {Orderings(S) : S \in SUBSET (1..NumTrx)}

\* lists of at most one well-formed transaction
ShortLists == {<<>>} \cup {<<t>> : t \in 1..NumTrx}

\* the transaction lists of inbound blocks: the lists of distinct well-formed
\* transactions, a list with the malformed transaction, one that repeats a
\* transaction and one with both a well-formed and the malformed transaction
TrxLists == GoodLists \cup {<<0>>, <<1, 1>>, <<1, 0>>}

\* the block a peer builds on our head from these transactions
NextBlock(trxs) ==
  [block_num |-> Inc32(head_block_num(chain)), prev |-> head_block_id(chain),
   timestamp |-> now, trxs |-> trxs, signed |-> TRUE]

\* the blocks a transport may deliver: successors of the head with any
\* transaction list, and a block that is unsigned, one that skips a height
\* and one that is not linked to the head
InboundBlocks ==
  {NextBlock(trxs) : trxs \in TrxLists}
    \cup {[NextBlock(<<>>) EXCEPT !.signed = FALSE],
          [NextBlock(<<>>) EXCEPT !.block_num = Inc32(@)],
          [NextBlock(<<>>) EXCEPT !.prev = <<"blk">>]}

Alive == phase \in {"running", "stopping"}

\* no pass has produced a block yet
NoBlock == [task |-> 0, blk |-> <<>>, at |-> 0, next |-> FALSE]

----------------------------------------------------------------------------
(* Construction: client::client(enable_p2p)                                 *)

Init ==
  /\ \E use_p2p \in BOOLEAN :
       /\ _p2p_node = use_p2p
       /\ _chain_client = ~use_p2p
  /\ _chain_db = NULL
  /\ _wallet = NULL
  /\ chain = <<>>
  /\ _pending_trxs = EmptyMap
  /\ _last_block = 0
  /\ now = 0
  /\ valid = 0
  /\ canceled = FALSE
  /\ task = [i \in 1..MaxRuns |-> [pc |-> "none", wake |-> 0]]
  /\ phase = "running"
  /\ last_produced = NoBlock
  /\ ret = NoRet

----------------------------------------------------------------------------
(* The transport's callbacks: the chain client calls on_new_block and       *)
(* on_new_transaction (chain_client_delegate), the p2p node calls           *)
(* handle_message (node_delegate).                                          *)

OnNewBlock(block, scan_ok) ==
  /\ Alive
  /\ _chain_client
  /\ LET r == on_new_block(block, scan_ok) IN
       /\ chain' = r.chain
       /\ _pending_trxs' = r.pending
       /\ phase' = Outcome(r.status)
       /\ ret' = [NoRet EXCEPT !.op = "on_new_block", !.call = "on_new_block",
                                 !.arg = block, !.status = r.status, !.pushed = r.pushed,
                                 !.erased = r.erased, !.scan = r.scan]
  /\ UNCHANGED <<configVars, bindVars, loopVars, _last_block, last_produced, now>>

OnNewTransaction(trx) ==
  /\ Alive
  /\ _chain_client
  /\ LET r == on_new_transaction(trx) IN
       /\ _pending_trxs' = r.pending
       /\ phase' = Outcome(r.status)
       /\ ret' = [NoRet EXCEPT !.op = "on_new_transaction", !.call = "on_new_transaction",
                                 !.arg = trx, !.status = r.status, !.inserted = r.inserted]
  /\ UNCHANGED <<configVars, bindVars, loopVars, chain, _last_block, last_produced, now>>

\* handle_message: dispatch on msg_type; any other type is ignored
HandleMessage(msg, scan_ok) ==
  /\ Alive
  /\ _p2p_node
  /\ IF msg.msg_type = block_message_type
     THEN LET r == on_new_block(msg.block, scan_ok) IN
          /\ chain' = r.chain
          /\ _pending_trxs' = r.pending
          /\ phase' = Outcome(r.status)
          /\ ret' = [NoRet EXCEPT !.op = "handle_message", !.call = "on_new_block",
                                    !.arg = msg.block, !.status = r.status,
                                    !.pushed = r.pushed, !.erased = r.erased,
                                    !.scan = r.scan]
     ELSE IF msg.msg_type = trx_message_type
     THEN LET r == on_new_transaction(msg.trx) IN
          /\ chain' = chain
          /\ _pending_trxs' = r.pending
          /\ phase' = Outcome(r.status)
          /\ ret' = [NoRet EXCEPT !.op = "handle_message", !.call = "on_new_transaction",
                                    !.arg = msg.trx, !.status = r.status,
                                    !.inserted = r.inserted]
     ELSE /\ UNCHANGED <<chain, _pending_trxs, phase>>
          /\ ret' = [NoRet EXCEPT !.op = "handle_message"]
  /\ UNCHANGED <<configVars, bindVars, loopVars, _last_block, last_produced, now>>

\* the messages a transport may deliver
InboundMessages ==
  {[msg_type |-> block_message_type, block |-> b] : b \in InboundBlocks}
    \cup {[msg_type |-> trx_message_type, trx |-> t] : t \in Trxs}
    \cup {[msg_type |-> "unknown"]}

\* the messages that carry a transaction or a well-formed block built on the head
GoodMessages ==
  {[msg_type |-> block_message_type, block |-> NextBlock(trxs)] : trxs \in GoodLists}
    \cup {[msg_type |-> trx_message_type, trx |-> t] : t \in Trxs}

\* the same, with blocks of at most one transaction
ShortMessages ==
  {[msg_type |-> block_message_type, block |-> NextBlock(trxs)] : trxs \in ShortLists}
    \cup {[msg_type |-> trx_message_type, trx |-> t] : t \in Trxs}

----------------------------------------------------------------------------
(* The item server: client_impl::get_item_ids                               *)

\* the loop of get_item_ids: the ids of the n blocks after last_seen_block_num.
\* A height the database does not hold leaves the header default-constructed
\* (where assert(false) is compiled out).
\* faulty variant: the height is advanced after the fetch, not before it
RECURSIVE HashesAfter_PostIncrement(_, _)
HashesAfter_PostIncrement(last_seen_block_num, n) ==
  IF n = 0 THEN <<>>
  ELSE <<IF HasBlockNum(chain, last_seen_block_num)
         THEN BlockId(fetch_block(chain, last_seen_block_num))
         ELSE <<"default">> >>
         \o HashesAfter_PostIncrement(Inc32(last_seen_block_num), n - 1)

RECURSIVE HashesAfter(_, _)
HashesAfter(last_seen_block_num, n) ==
  IF n = 0 THEN <<>>
  ELSE LET num == Inc32(last_seen_block_num) IN
       <<IF HasBlockNum(chain, num) THEN BlockId(fetch_block(chain, num))
                                    ELSE <<"default">> >>
         \o HashesAfter(num, n - 1)

\* whether the loop finds every height it fetches
RECURSIVE AllHeld(_, _)
AllHeld(last_seen_block_num, n) ==
  n = 0 \/ ( /\ HasBlockNum(chain, Inc32(last_seen_block_num))
             /\ AllHeld(Inc32(last_seen_block_num), n - 1) )

\* faulty variant: a hash the database does not hold is treated as the zero hash
get_item_ids_UnknownAsZero(from_id, limit) ==
  IF from_id.item_type # block_message_type
  THEN [status |-> "throw", value |-> <<>>, remaining |-> 0, asserted |-> FALSE]
  ELSE IF _chain_db = NULL
  THEN [status |-> "crash", value |-> <<>>, remaining |-> 0, asserted |-> FALSE]
  ELSE LET last_seen_block_num ==
             IF HasBlock(chain, from_id.item_hash)
             THEN fetch_block_num(chain, from_id.item_hash)
             ELSE UINT32_MAX
           remaining_item_count == Sub32(head_block_num(chain), last_seen_block_num)
           items_to_get_this_iteration == Min(limit, remaining_item_count)
       IN  [status |-> "ok",
            value |-> HashesAfter(last_seen_block_num, items_to_get_this_iteration),
            remaining |-> Sub32(remaining_item_count, items_to_get_this_iteration),
            asserted |-> ~AllHeld(last_seen_block_num, items_to_get_this_iteration)]

get_item_ids(from_id, limit) ==
  IF from_id.item_type # block_message_type
  THEN [status |-> "throw", value |-> <<>>, remaining |-> 0, asserted |-> FALSE]
  ELSE IF _chain_db = NULL
  THEN [status |-> "crash", value |-> <<>>, remaining |-> 0, asserted |-> FALSE]
  ELSE IF ~HasBlock(chain, from_id.item_hash) /\ from_id.item_hash # ZeroHash
  THEN [status |-> "ok", value |-> <<>>, remaining |-> 0, asserted |-> FALSE]
  ELSE LET last_seen_block_num ==
             IF HasBlock(chain, from_id.item_hash)
             THEN fetch_block_num(chain, from_id.item_hash)
             ELSE UINT32_MAX
           remaining_item_count == Sub32(head_block_num(chain), last_seen_block_num)
           items_to_get_this_iteration == Min(limit, remaining_item_count)
       IN  [status |-> "ok",
            value |-> HashesAfter(last_seen_block_num, items_to_get_this_iteration),
            remaining |-> Sub32(remaining_item_count, items_to_get_this_iteration),
            asserted |-> ~AllHeld(last_seen_block_num, items_to_get_this_iteration)]

GetItemIds(from_id, limit) ==
  /\ Alive
  /\ _p2p_node
  /\ LET r == get_item_ids(from_id, limit) IN
       /\ phase' = Outcome(r.status)
       /\ ret' = [NoRet EXCEPT !.op = "get_item_ids", !.arg = <<from_id, limit>>,
                                 !.status = r.status, !.value = r.value,
                                 !.remaining = r.remaining, !.asserted = r.asserted]
  /\ UNCHANGED <<configVars, bindVars, loopVars, chain, _pending_trxs, _last_block, last_produced, now>>

\* the ids a peer may start from: as a block, the zero hash, the id of a block
\* of the chain and a hash of nothing we hold; and the id of a transaction
FromIds ==
  [item_type : {block_message_type},
   item_hash : {ZeroHash, <<"blk">>} \cup {BlockId(chain[i]) : i \in 1..Len(chain)}]
    \cup [item_type : {trx_message_type}, item_hash : {TrxId(1)}]

\* the limits a peer may give
Limits == 0..MaxLimit \cup {UINT32_MAX}

----------------------------------------------------------------------------
(* The item server: client_impl::has_item and client_impl::get_item         *)

has_item(id) == FALSE

HasItem(id) ==
  /\ Alive
  /\ _p2p_node
  /\ ret' = [NoRet EXCEPT !.op = "has_item", !.arg = id, !.value = has_item(id)]
  /\ UNCHANGED <<configVars, bindVars, loopVars, chain, _pending_trxs, _last_block, last_produced,
                 now, phase>>

\* get_item(id): the message to send for this id.  A block is fetched from
\* the database; for a transaction the mempool is searched, and whatever the
\* search finds control reaches the FC_THROW_EXCEPTION at the end.
get_item(id) ==
  IF id.item_type = block_message_type
  THEN IF _chain_db = NULL
       THEN [status |-> "crash", value |-> <<>>]
       ELSE IF ~HasBlock(chain, id.item_hash)
       THEN [status |-> "throw", value |-> <<>>]
       ELSE [status |-> "ok",
             value |-> [msg_type |-> block_message_type,
                        block |-> fetch_block(chain, fetch_block_num(chain, id.item_hash))]]
  ELSE [status |-> "throw", value |-> <<>>]

GetItem(id) ==
  /\ Alive
  /\ _p2p_node
  /\ LET r == get_item(id) IN
       /\ phase' = Outcome(r.status)
       /\ ret' = [NoRet EXCEPT !.op = "get_item", !.arg = id, !.status = r.status,
                                 !.value = r.value]
  /\ UNCHANGED <<configVars, bindVars, loopVars, chain, _pending_trxs, _last_block, last_produced, now>>

\* the ids a peer may ask for: as a block, the zero hash, the ids of the
\* blocks of the chain and a hash of nothing we hold; as a transaction, the
\* ids of the well-formed transactions; and an id of an unknown type
ItemIds ==
  [item_type : {block_message_type},
   item_hash : {ZeroHash, <<"blk">>} \cup {BlockId(chain[i]) : i \in 1..Len(chain)}]
    \cup [item_type : {trx_message_type}, item_hash : {TrxId(t) : t \in 1..NumTrx}]
    \cup [item_type : {"unknown"}, item_hash : {TrxId(1)}]

----------------------------------------------------------------------------
(* The facade                                                               *)

\* set_chain(ptr): the database already bound, or a fresh, empty one
SetChain(ptr) ==
  /\ phase = "running"
  /\ ptr \in {_chain_db, _chain_db + 1} \ {NULL}
  /\ ptr <= MaxChains
  /\ _chain_db' = ptr
  /\ chain' = IF ptr = _chain_db THEN chain ELSE <<>>
  /\ ret' = [NoRet EXCEPT !.op = "set_chain", !.arg = ptr]
  /\ UNCHANGED <<configVars, _wallet, loopVars, _pending_trxs, _last_block, last_produced, now, phase>>

\* set_wallet(wall): FC_ASSERT(_chain_db), bind, scan the chain
SetWallet(wall, scan_ok) ==
  /\ phase = "running"
  /\ IF _chain_db = NULL
     THEN /\ UNCHANGED _wallet
          /\ ret' = [NoRet EXCEPT !.op = "set_wallet", !.arg = wall, !.status = "throw"]
     ELSE /\ _wallet' = wall
          /\ ret' = [NoRet EXCEPT !.op = "set_wallet", !.arg = wall,
                                    !.scan = IF scan_ok THEN "ok" ELSE "throw",
                                    !.status = IF scan_ok THEN "ok" ELSE "throw"]
  /\ UNCHANGED <<configVars, _chain_db, loopVars, chain, _pending_trxs, _last_block, last_produced,
                 now, phase>>

\* faulty variant: the transaction is handed to the transport and never self-applied
broadcast_transaction_NoSelfApply(trx, bc_ok) ==
  IF ~bc_ok
  THEN [status |-> "throw", pending |-> _pending_trxs, inserted |-> FALSE,
        sent |-> <<>>, call |-> "none"]
  ELSE [status |-> "ok", pending |-> _pending_trxs, inserted |-> FALSE,
        sent |-> <<IF _chain_client THEN "chain_client" ELSE "p2p_node", trx>>,
        call |-> "none"]

\* faulty variant: the transaction is self-applied in both modes
broadcast_transaction_AlwaysSelfApply(trx, bc_ok) ==
  IF ~bc_ok
  THEN [status |-> "throw", pending |-> _pending_trxs, inserted |-> FALSE,
        sent |-> <<>>, call |-> "none"]
  ELSE LET r == on_new_transaction(trx) IN
       [status |-> r.status, pending |-> r.pending, inserted |-> r.inserted,
        sent |-> <<IF _chain_client THEN "chain_client" ELSE "p2p_node", trx>>,
        call |-> "on_new_transaction"]

\* broadcast_transaction(trx); bc_ok: whether the transport's call returns normally
broadcast_transaction(trx, bc_ok) ==
  IF ~bc_ok
  THEN [status |-> "throw", pending |-> _pending_trxs, inserted |-> FALSE,
        sent |-> <<>>, call |-> "none"]
  ELSE IF _chain_client
  THEN [status |-> "ok", pending |-> _pending_trxs, inserted |-> FALSE,
        sent |-> <<"chain_client", trx>>, call |-> "none"]
  ELSE LET r == on_new_transaction(trx) IN
       [status |-> r.status, pending |-> r.pending, inserted |-> r.inserted,
        sent |-> <<"p2p_node", trx>>, call |-> "on_new_transaction"]

BroadcastTransaction(trx, bc_ok) ==
  /\ phase = "running"
  /\ LET r == broadcast_transaction(trx, bc_ok) IN
       /\ _pending_trxs' = r.pending
       /\ phase' = Outcome(r.status)
       /\ ret' = [NoRet EXCEPT !.op = "broadcast_transaction", !.call = r.call,
                                 !.arg = trx, !.status = r.status,
                                 !.inserted = r.inserted, !.sent = r.sent]
  /\ UNCHANGED <<configVars, bindVars, loopVars, chain, _last_block, last_produced, now>>

\* connect_to_p2p_network(): nothing without a p2p node; otherwise sync_from the
\* head block's id, or from the zero hash when the chain is empty
connect_to_p2p_network ==
  IF ~_p2p_node THEN [status |-> "ok", sent |-> <<>>]
  ELSE IF _chain_db = NULL THEN [status |-> "crash", sent |-> <<>>]
  ELSE [status |-> "ok",
        sent |-> <<"sync_from",
                   [item_type |-> block_message_type,
                    item_hash |-> IF head_block_num(chain) = UINT32_MAX
                                  THEN ZeroHash ELSE head_block_id(chain)]>>]

ConnectToP2pNetwork ==
  /\ phase = "running"
  /\ LET r == connect_to_p2p_network IN
       /\ phase' = Outcome(r.status)
       /\ ret' = [NoRet EXCEPT !.op = "connect_to_p2p_network", !.status = r.status,
                                 !.sent = r.sent]
  /\ UNCHANGED <<configVars, bindVars, loopVars, chain, _pending_trxs, _last_block,
                 last_produced, now>>

\* run_trustee(k): store the key, start a trustee_loop task, keep its future
RunTrustee ==
  /\ phase = "running"
  /\ valid < MaxRuns
  /\ valid' = valid + 1
  /\ canceled' = FALSE
  /\ task' = [task EXCEPT ![valid + 1] = [pc |-> "start", wake |-> 0]]
  /\ ret' = [NoRet EXCEPT !.op = "run_trustee"]
  /\ UNCHANGED <<configVars, bindVars, chain, _pending_trxs, _last_block, last_produced, now, phase>>

\* ~client: cancel the trustee future if there is one, then wait for it
Shutdown ==
  /\ phase = "running"
  /\ canceled' = (valid > 0)
  /\ phase' = IF valid > 0 /\ task[valid].pc # "done" THEN "stopping" ELSE "destroyed"
  /\ ret' = [NoRet EXCEPT !.op = "shutdown"]
  /\ UNCHANGED <<configVars, bindVars, valid, task, chain, _pending_trxs, _last_block, last_produced, now>>

\* how _trustee_loop_complete.wait() may end: it returns, or it rethrows the
\* canceled_exception or another fc::exception the task ended with
WaitResults == {"return", "canceled_exception", "exception"}

\* faulty variant: the destructor does not wait for the task
ShutdownWait_NoWait(wait_result) ==
  /\ phase = "stopping"
  /\ phase' = "destroyed"
  /\ ret' = [NoRet EXCEPT !.op = "shutdown", !.value = wait_result]
  /\ UNCHANGED <<configVars, bindVars, loopVars, chain, _pending_trxs, _last_block,
                 last_produced, now>>

\* _trustee_loop_complete.wait() ends once the task has ended; both catch
\* clauses of the destructor absorb what it throws
ShutdownWait(wait_result) ==
  /\ phase = "stopping"
  /\ task[valid].pc = "done"
  /\ phase' = "destroyed"
  /\ ret' = [NoRet EXCEPT !.op = "shutdown", !.value = wait_result]
  /\ UNCHANGED <<configVars, bindVars, loopVars, chain, _pending_trxs, _last_block, last_produced, now>>

----------------------------------------------------------------------------
(* client_impl::trustee_loop                                                *)
(* A task runs from one suspension to the next without interruption: from   *)
(* its start, or from the end of fc::usleep, through the loop test and the  *)
(* loop body to the next fc::usleep.  task[i].pc is "none" (not started),   *)
(* "start" (scheduled by fc::async), "sleep" (in fc::usleep until wake),    *)
(* "ready" (fc::usleep is over) or "done" (the loop has ended).             *)

\* what may fail in a pass: nothing, generate_next_block, the transport's
\* broadcast, or the scan_chain of the self-apply
Failures == {"none", "generate", "broadcast", "scan"}

\* faulty variant: in Peer mode the block is broadcast and not self-applied
LoopBody_NoSelfApply(last, snapshot, fail) ==
  LET idle == [tick |-> "idle", status |-> "ok", last |-> last, chain |-> chain,
               pending |-> _pending_trxs, blk |-> <<>>, sent |-> <<>>, call |-> "none",
               pushed |-> FALSE, erased |-> 0, scan |-> "none"]
      blk == NextBlock(snapshot)
  IN
  IF ~(Len(snapshot) > 0 /\ now - last > GateSeconds) THEN idle
  ELSE IF _wallet = NULL THEN [idle EXCEPT !.tick = "failed", !.status = "crash"]
  ELSE IF fail = "generate" THEN [idle EXCEPT !.tick = "failed"]
  ELSE IF fail = "broadcast" THEN [idle EXCEPT !.tick = "failed", !.blk = blk]
  ELSE IF _chain_client \/ _p2p_node
  THEN [idle EXCEPT !.tick = "produced", !.blk = blk, !.last = now,
                    !.sent = <<IF _chain_client THEN "chain_client" ELSE "p2p_node", blk>>]
  ELSE LET r == on_new_block(blk, fail # "scan") IN
       [tick |-> IF r.status = "ok" THEN "produced" ELSE "failed",
        status |-> IF r.status = "crash" THEN "crash" ELSE "ok",
        last |-> IF r.status = "ok" THEN now ELSE last,
        chain |-> r.chain, pending |-> r.pending, blk |-> blk,
        sent |-> <<"p2p_node", blk>>, call |-> "on_new_block",
        pushed |-> r.pushed, erased |-> r.erased, scan |-> r.scan]

\* faulty variant: the block is self-applied in both modes
LoopBody_AlwaysSelfApply(last, snapshot, fail) ==
  LET idle == [tick |-> "idle", status |-> "ok", last |-> last, chain |-> chain,
               pending |-> _pending_trxs, blk |-> <<>>, sent |-> <<>>, call |-> "none",
               pushed |-> FALSE, erased |-> 0, scan |-> "none"]
      blk == NextBlock(snapshot)
  IN
  IF ~(Len(snapshot) > 0 /\ now - last > GateSeconds) THEN idle
  ELSE IF _wallet = NULL THEN [idle EXCEPT !.tick = "failed", !.status = "crash"]
  ELSE IF fail = "generate" THEN [idle EXCEPT !.tick = "failed"]
  ELSE IF fail = "broadcast" THEN [idle EXCEPT !.tick = "failed", !.blk = blk]
  ELSE LET r == on_new_block(blk, fail # "scan") IN
       [tick |-> IF r.status = "ok" THEN "produced" ELSE "failed",
        status |-> IF r.status = "crash" THEN "crash" ELSE "ok",
        last |-> IF r.status = "ok" THEN now ELSE last,
        chain |-> r.chain, pending |-> r.pending, blk |-> blk,
        sent |-> <<IF _chain_client THEN "chain_client" ELSE "p2p_node", blk>>,
        call |-> "on_new_block",
        pushed |-> r.pushed, erased |-> r.erased, scan |-> r.scan]

\* faulty variant: _last_block is set whether or not the production succeeded
LoopBody_FailureSetsLast(last, snapshot, fail) ==
  LET idle == [tick |-> "idle", status |-> "ok", last |-> last, chain |-> chain,
               pending |-> _pending_trxs, blk |-> <<>>, sent |-> <<>>, call |-> "none",
               pushed |-> FALSE, erased |-> 0, scan |-> "none"]
      blk == NextBlock(snapshot)
  IN
  IF ~(Len(snapshot) > 0 /\ now - last > GateSeconds) THEN idle
  ELSE IF _wallet = NULL THEN [idle EXCEPT !.tick = "failed", !.status = "crash"]
  ELSE IF fail = "generate" THEN [idle EXCEPT !.tick = "failed", !.last = now]
  ELSE IF fail = "broadcast" THEN [idle EXCEPT !.tick = "failed", !.blk = blk, !.last = now]
  ELSE IF _chain_client
  THEN [idle EXCEPT !.tick = "produced", !.blk = blk, !.sent = <<"chain_client", blk>>,
                    !.last = now]
  ELSE LET r == on_new_block(blk, fail # "scan") IN
       [tick |-> IF r.status = "ok" THEN "produced" ELSE "failed",
        status |-> IF r.status = "crash" THEN "crash" ELSE "ok",
        last |-> now,
        chain |-> r.chain, pending |-> r.pending, blk |-> blk,
        sent |-> <<"p2p_node", blk>>, call |-> "on_new_block",
        pushed |-> r.pushed, erased |-> r.erased, scan |-> r.scan]

\* one pass of the loop body with _last_block = last: what it leaves behind
LoopBody(last, snapshot, fail) ==
  LET idle == [tick |-> "idle", status |-> "ok", last |-> last, chain |-> chain,
               pending |-> _pending_trxs, blk |-> <<>>, sent |-> <<>>, call |-> "none",
               pushed |-> FALSE, erased |-> 0, scan |-> "none"]
      blk == NextBlock(snapshot)
  IN
  IF ~(Len(snapshot) > 0 /\ now - last > GateSeconds) THEN idle
  ELSE IF _wallet = NULL THEN [idle EXCEPT !.tick = "failed", !.status = "crash"]
  ELSE IF fail = "generate" THEN [idle EXCEPT !.tick = "failed"]
  ELSE IF fail = "broadcast" THEN [idle EXCEPT !.tick = "failed", !.blk = blk]
  ELSE IF _chain_client
  THEN [idle EXCEPT !.tick = "produced", !.blk = blk, !.sent = <<"chain_client", blk>>,
                    !.last = now]
  ELSE LET r == on_new_block(blk, fail # "scan") IN
       [tick |-> IF r.status = "ok" THEN "produced" ELSE "failed",
        status |-> IF r.status = "crash" THEN "crash" ELSE "ok",
        last |-> IF r.status = "ok" THEN now ELSE last,
        chain |-> r.chain, pending |-> r.pending, blk |-> blk,
        sent |-> <<"p2p_node", blk>>, call |-> "on_new_block",
        pushed |-> r.pushed, erased |-> r.erased, scan |-> r.scan]

\* the history after task i has started another pass
Ran(i) == IF last_produced.task = i THEN [last_produced EXCEPT !.next = FALSE]
                                     ELSE last_produced

TrusteeTick(i, fail) ==
  /\ Alive
  /\ task[i].pc \in {"start", "ready"}
  /\ IF task[i].pc = "start" /\ _chain_db = NULL
     THEN \* _chain_db->get_head_block() on a null pointer
          /\ phase' = "crashed"
          /\ ret' = [NoRet EXCEPT !.op = "trustee_loop", !.status = "crash"]
          /\ UNCHANGED <<chain, _pending_trxs, _last_block, last_produced, task>>
     ELSE LET last == IF task[i].pc = "start" THEN HeadTimestamp(chain) ELSE _last_block IN
          IF canceled
          THEN /\ _last_block' = last
               /\ task' = [task EXCEPT ![i].pc = "done"]
               /\ last_produced' = Ran(i)
               /\ ret' = [NoRet EXCEPT !.op = "trustee_loop", !.tick = "exit"]
               /\ UNCHANGED <<chain, _pending_trxs, phase>>
          ELSE \E snapshot \in get_pending_transactions(_pending_trxs) :
               LET r == LoopBody(last, snapshot, fail) IN
               /\ _last_block' = r.last
               /\ chain' = r.chain
               /\ _pending_trxs' = r.pending
               /\ phase' = Outcome(r.status)
               /\ task' = [task EXCEPT ![i] = [pc |-> "sleep", wake |-> now + SleepSeconds]]
               /\ last_produced' = IF r.tick = "produced"
                                   THEN [task |-> i, blk |-> r.blk, at |-> now, next |-> TRUE]
                                   ELSE Ran(i)
               /\ ret' = [NoRet EXCEPT !.op = "trustee_loop", !.call = r.call,
                                         !.arg = r.blk, !.status = r.status,
                                         !.tick = r.tick, !.sent = r.sent,
                                         !.pushed = r.pushed, !.erased = r.erased,
                                         !.scan = r.scan]
  /\ UNCHANGED <<configVars, bindVars, valid, canceled, now>>

\* time passes; the scheduler makes ready the tasks whose fc::usleep is over
AdvanceClock(d) ==
  /\ Alive
  /\ now + d <= MaxTime
  /\ now' = now + d
  /\ task' = [i \in 1..MaxRuns |->
                IF task[i].pc = "sleep" /\ now + d >= task[i].wake
                THEN [pc |-> "ready", wake |-> 0] ELSE task[i]]
  /\ ret' = [NoRet EXCEPT !.op = "clock"]
  /\ UNCHANGED <<configVars, bindVars, valid, canceled, chain, _pending_trxs,
                 _last_block, last_produced, phase>>

----------------------------------------------------------------------------
(* Specifications                                                           *)

\* The inbound plane and the facade: binding, the transport's callbacks,
\* broadcast_transaction, destruction.
Next ==
  \/ \E ptr \in 1..MaxChains : SetChain(ptr)
  \/ \E scan_ok \in BOOLEAN : SetWallet(1, scan_ok)
  \/ \E b \in InboundBlocks, scan_ok \in BOOLEAN :
       Len(chain) < MaxBlocks /\ OnNewBlock(b, scan_ok)
  \/ \E t \in Trxs : OnNewTransaction(t)
  \/ \E m \in InboundMessages, scan_ok \in BOOLEAN :
       Len(chain) < MaxBlocks /\ HandleMessage(m, scan_ok)
  \/ \E t \in Trxs, bc_ok \in BOOLEAN : BroadcastTransaction(t, bc_ok)
  \/ Shutdown

Spec == Init /\ [][Next]_vars

\* the blocks delivered while the trustee runs: an empty block built on the
\* head, and the block the trustee last broadcast (the chain client's echo)
LoopBlocks ==
  {NextBlock(<<>>)} \cup (IF last_produced = NoBlock THEN {} ELSE {last_produced.blk})

\* The trustee: one database and one wallet are bound, run_trustee starts the
\* loop (more than once), the clock runs, the transports deliver
\* transactions and blocks.
NextTrustee ==
  \/ SetChain(1)
  \/ SetWallet(1, TRUE)
  \/ \E t \in Trxs : OnNewTransaction(t)
  \/ \E b \in LoopBlocks : Len(chain) < MaxBlocks /\ OnNewBlock(b, TRUE)
  \/ \E t \in Trxs : HandleMessage([msg_type |-> trx_message_type, trx |-> t], TRUE)
  \/ \E b \in LoopBlocks :
       Len(chain) < MaxBlocks /\ HandleMessage([msg_type |-> block_message_type, block |-> b], TRUE)
  \/ RunTrustee
  \/ \E i \in 1..MaxRuns, fail \in Failures :
       /\ Len(chain) < MaxBlocks \/ _chain_client \/ _pending_trxs = EmptyMap
       /\ TrusteeTick(i, fail)
  \/ \E d \in ClockSteps : AdvanceClock(d)

SpecTrustee == Init /\ [][NextTrustee]_vars

\* The trustee loop in the prescribed lifecycle: the same, with run_trustee
\* called once.
NextLoop ==
  \/ SetChain(1)
  \/ SetWallet(1, TRUE)
  \/ \E t \in Trxs : OnNewTransaction(t)
  \/ \E b \in LoopBlocks : Len(chain) < MaxBlocks /\ OnNewBlock(b, TRUE)
  \/ \E t \in Trxs : HandleMessage([msg_type |-> trx_message_type, trx |-> t], TRUE)
  \/ \E b \in LoopBlocks :
       Len(chain) < MaxBlocks /\ HandleMessage([msg_type |-> block_message_type, block |-> b], TRUE)
  \/ valid = 0 /\ RunTrustee
  \/ \E i \in 1..MaxRuns, fail \in Failures :
       /\ Len(chain) < MaxBlocks \/ _chain_client \/ _pending_trxs = EmptyMap
       /\ TrusteeTick(i, fail)
  \/ \E d \in ClockSteps : AdvanceClock(d)

SpecLoop == Init /\ [][NextLoop]_vars

\* Destruction of a client whose trustee loop runs: chain and wallet are
\* bound before run_trustee, a transaction arrives, the clock runs, and the
\* client is destroyed while the clock can still wake the sleeping task.
\* The scheduler runs every task that is ready and time passes.
NextShutdown ==
  \/ SetChain(1)
  \/ SetWallet(1, TRUE)
  \/ OnNewTransaction(1)
  \/ HandleMessage([msg_type |-> trx_message_type, trx |-> 1], TRUE)
  \/ _wallet # NULL /\ RunTrustee
  \/ \E i \in 1..MaxRuns, fail \in Failures :
       /\ Len(chain) < MaxBlocks \/ _chain_client \/ _pending_trxs = EmptyMap
       /\ TrusteeTick(i, fail)
  \/ \E d \in ClockSteps : AdvanceClock(d)
  \/ now + GateSeconds <= MaxTime /\ Shutdown
  \/ \E wait_result \in WaitResults : ShutdownWait(wait_result)

SpecShutdown ==
  /\ Init /\ [][NextShutdown]_vars
  /\ \A i \in 1..MaxRuns :
       WF_vars(\E fail \in Failures :
                 /\ Len(chain) < MaxBlocks \/ _chain_client \/ _pending_trxs = EmptyMap
                 /\ TrusteeTick(i, fail))
  /\ WF_vars(\E d \in ClockSteps : AdvanceClock(d))
  /\ WF_vars(\E wait_result \in WaitResults : ShutdownWait(wait_result))

\* The item server of a p2p client: a database and a wallet are bound, the
\* node delivers transactions and blocks built on the head, peers ask for
\* item ids and for items, and the client joins the network.
NextSync ==
  \/ SetChain(1)
  \/ SetWallet(1, TRUE)
  \/ \E m \in ShortMessages : Len(chain) < MaxSyncBlocks /\ HandleMessage(m, TRUE)
  \/ \E from_id \in FromIds, limit \in Limits : GetItemIds(from_id, limit)
  \/ \E id \in ItemIds : HasItem(id)
  \/ \E id \in ItemIds : GetItem(id)
  \/ ConnectToP2pNetwork

SpecSync == Init /\ [][NextSync]_vars

----------------------------------------------------------------------------
(* Properties                                                               *)

\* the last step ran on_new_block (from a transport, handle_message or the trustee)
RanOnNewBlock == ret.call = "on_new_block"
\* the last step ran on_new_transaction (from a transport, handle_message or
\* broadcast_transaction)
RanOnNewTransaction == ret.call = "on_new_transaction"

\* C1: after on_new_block(B) in which push_block accepted B, no id of a
\* transaction of B is a key of the mempool; and when the wallet scan returns
\* normally the call succeeds, whether or not B's ids were in the mempool.
C1_BlockTrxsLeaveMempool ==
  (RanOnNewBlock /\ ret.pushed) =>
     /\ \A i \in 1..Len(ret.arg.trxs) : TrxId(ret.arg.trxs[i]) \notin DOMAIN _pending_trxs
     /\ ret.scan = "ok" => ret.status = "ok"

\* C1 witness: an applied block of two transactions, one of which was pending
\* and one of which was not
C1_Witness ==
  /\ RanOnNewBlock /\ ret.pushed /\ ret.status = "ok"
  /\ Len(ret.arg.trxs) = 2 /\ ret.erased = 1
  /\ _pending_trxs = EmptyMap

\* C2: a step that runs on_new_transaction(T) on a transaction the chain
\* evaluation accepts ends normally with T in the mempool under TrxId(T), and
\* leaves the chain (the bound database and its blocks) as it was.
C2_ValidTrxEntersMempool ==
  [][(RanOnNewTransaction' /\ _chain_db # NULL /\ evaluate_transaction(chain, ret'.arg)) =>
       /\ ret'.status = "ok"
       /\ TrxId(ret'.arg) \in DOMAIN _pending_trxs'
       /\ _pending_trxs'[TrxId(ret'.arg)] = ret'.arg
       /\ chain' = chain /\ _chain_db' = _chain_db]_vars

\* C2 witness: a transaction was added to the mempool of a client whose chain
\* holds a block
C2_Witness ==
  RanOnNewTransaction /\ ret.status = "ok" /\ ret.inserted /\ chain # <<>>

\* C3: a step that runs on_new_transaction(T) on a valid T that is already in
\* the mempool ends normally, reports a duplicate and leaves the mempool (keys,
\* size and entries) as it was.
C3_DuplicateIsIdempotent ==
  [][(/\ RanOnNewTransaction' /\ _chain_db # NULL
      /\ evaluate_transaction(chain, ret'.arg)
      /\ TrxId(ret'.arg) \in DOMAIN _pending_trxs) =>
       /\ ret'.status = "ok"
       /\ ~ret'.inserted
       /\ _pending_trxs' = _pending_trxs]_vars

\* C3 witness: the duplicate branch was taken on a mempool of two entries
C3_Witness ==
  /\ RanOnNewTransaction /\ ret.status = "ok" /\ ~ret.inserted
  /\ Cardinality(DOMAIN _pending_trxs) = 2

\* C4: a step that runs on_new_transaction(T) on a T that evaluation rejects
\* throws and leaves the mempool as it was; and a key enters the mempool only
\* in a step that runs on_new_transaction on the transaction with that id,
\* which evaluation accepted in the state before the step.
C4_InsertOnlyAfterEvaluation ==
  [][/\ (RanOnNewTransaction' /\ _chain_db # NULL /\ ~evaluate_transaction(chain, ret'.arg)) =>
          (ret'.status = "throw" /\ _pending_trxs' = _pending_trxs)
     /\ \A id \in DOMAIN _pending_trxs' \ DOMAIN _pending_trxs :
          /\ RanOnNewTransaction' /\ TrxId(ret'.arg) = id
          /\ _pending_trxs'[id] = ret'.arg
          /\ _chain_db # NULL /\ evaluate_transaction(chain, ret'.arg)]_vars

\* C4 witness: on_new_transaction threw on a client that holds pending transactions
C4_Witness ==
  RanOnNewTransaction /\ ret.status = "throw" /\ _pending_trxs # EmptyMap

\* C5: a step that runs on_new_block(B) on a block push_block rejects throws,
\* leaves the chain and the mempool as they were and does not call scan_chain.
C5_RejectedBlockChangesNothing ==
  [][(RanOnNewBlock' /\ _chain_db # NULL /\ ~push_block(chain, ret'.arg)) =>
       /\ ret'.status = "throw"
       /\ chain' = chain /\ _chain_db' = _chain_db
       /\ _pending_trxs' = _pending_trxs
       /\ ret'.scan = "none"]_vars

\* C5 witness: on_new_block threw without pushing, on a client with a block
\* in its chain and a transaction of the rejected block in its mempool
C5_Witness ==
  /\ RanOnNewBlock /\ ret.status = "throw" /\ ~ret.pushed
  /\ chain # <<>>
  /\ \E i \in 1..Len(ret.arg.trxs) : TrxId(ret.arg.trxs[i]) \in DOMAIN _pending_trxs

\* C6: a step that runs on_new_block or on_new_transaction (directly, or
\* through handle_message) and does not crash either ends normally or leaves
\* the chain and the mempool as they were.
C6_InboundAllOrNothing ==
  [][((RanOnNewBlock' \/ RanOnNewTransaction') /\ ret'.status # "crash") =>
       \/ ret'.status = "ok"
       \/ chain' = chain /\ _pending_trxs' = _pending_trxs]_vars

\* C7: _last_block never decreases.
C7_LastBlockMonotonic == [][_last_block' >= _last_block]_vars

\* C8: in Peer mode, when broadcast_transaction(T) has returned, T was handed
\* to the p2p node, on_new_transaction ran in the same call and T is in the
\* mempool under TrxId(T).
C8_PeerBroadcastSelfApplies ==
  (ret.op = "broadcast_transaction" /\ _p2p_node /\ ret.status = "ok") =>
     /\ ret.sent = <<"p2p_node", ret.arg>>
     /\ RanOnNewTransaction
     /\ TrxId(ret.arg) \in DOMAIN _pending_trxs
     /\ _pending_trxs[TrxId(ret.arg)] = ret.arg

\* C8 witness: a Peer-mode broadcast_transaction returned after adding its
\* transaction to the mempool
C8_Witness ==
  ret.op = "broadcast_transaction" /\ _p2p_node /\ ret.status = "ok" /\ ret.inserted

\* C9: in ClientServer mode, a broadcast_transaction(T) step hands T to the
\* chain client only and leaves the mempool and the chain as they were; a key
\* enters the mempool only in a step in which the transport calls
\* on_new_transaction on the transaction with that id; and after such a call
\* on a valid T, T is in the mempool.
C9_ClientServerWaitsForEcho ==
  [][_chain_client =>
       /\ ret'.op = "broadcast_transaction" =>
            /\ _pending_trxs' = _pending_trxs
            /\ chain' = chain
            /\ ret'.call = "none"
            /\ ret'.status = "ok" => ret'.sent = <<"chain_client", ret'.arg>>
       /\ \A id \in DOMAIN _pending_trxs' \ DOMAIN _pending_trxs :
            ret'.op = "on_new_transaction" /\ TrxId(ret'.arg) = id
       /\ (ret'.op = "on_new_transaction" /\ ret'.status = "ok") =>
            TrxId(ret'.arg) \in DOMAIN _pending_trxs']_vars

\* C9 witness: a ClientServer-mode broadcast_transaction of a valid
\* transaction returned and the transaction is not in the mempool
C9_Witness ==
  /\ ret.op = "broadcast_transaction" /\ _chain_client /\ ret.status = "ok"
  /\ _chain_db # NULL /\ evaluate_transaction(chain, ret.arg)
  /\ TrxId(ret.arg) \notin DOMAIN _pending_trxs

\* the ids of the blocks at heights from..to of the chain, in ascending order
IdsOfHeights(from, to) ==
  [i \in 1..(IF to >= from THEN to - from + 1 ELSE 0) |-> BlockId(chain[from + i])]

\* C10: when get_item_ids((BLOCK, id of block k), limit) has run on a chain
\* holding blocks 0..H, it returned the ids of blocks k+1 .. min(k+limit, H) in
\* ascending order and remaining = max(0, H - k - limit).
C10_ItemIdsAfterKnownBlock ==
  (/\ ret.op = "get_item_ids"
   /\ ret.arg[1].item_type = block_message_type
   /\ HasBlock(chain, ret.arg[1].item_hash)) =>
     LET H == Len(chain) - 1
         k == CHOOSE n \in 0..H : BlockId(chain[n + 1]) = ret.arg[1].item_hash
         limit == ret.arg[2]
     IN  /\ ret.status = "ok" /\ ~ret.asserted
         /\ ret.value = IdsOfHeights(k + 1, Min(k + limit, H))
         /\ ret.remaining = (IF H - k - limit > 0 THEN H - k - limit ELSE 0)

\* C10 witness: a query from a known block returned two ids and left one
C10_Witness ==
  /\ ret.op = "get_item_ids" /\ ret.status = "ok"
  /\ ret.arg[1].item_type = block_message_type
  /\ HasBlock(chain, ret.arg[1].item_hash)
  /\ Len(ret.value) = 2 /\ ret.remaining = 1

\* C11: when get_item_ids((BLOCK, zero hash), limit) has run on a bound chain
\* holding blocks 0..H, it returned the ids of blocks 0 .. min(limit-1, H) in
\* ascending order and remaining = (H+1) minus the number of ids returned; on
\* an empty chain it returned no id and remaining = 0.
C11_ItemIdsFromGenesis ==
  (/\ ret.op = "get_item_ids"
   /\ ret.arg[1].item_type = block_message_type
   /\ ret.arg[1].item_hash = ZeroHash
   /\ _chain_db # NULL) =>
     LET H == Len(chain) - 1
         limit == ret.arg[2]
     IN  /\ ret.status = "ok" /\ ~ret.asserted
         /\ ret.value = IdsOfHeights(0, Min(limit - 1, H))
         /\ ret.remaining = (H + 1) - Len(ret.value)
         /\ chain = <<>> => (ret.value = <<>> /\ ret.remaining = 0)

\* C11 witness: a query from the zero hash returned the ids of blocks 0 and 1
\* of a chain of three blocks and left one
C11_Witness ==
  /\ ret.op = "get_item_ids" /\ ret.status = "ok"
  /\ ret.arg[1] = [item_type |-> block_message_type, item_hash |-> ZeroHash]
  /\ Len(chain) = 3
  /\ ret.value = <<BlockId(chain[1]), BlockId(chain[2])>> /\ ret.remaining = 1

\* C12: a get_item_ids((BLOCK, hash), limit) step on a bound chain, with a
\* non-zero hash that is not the id of a block of the chain, ends normally,
\* returns no id and remaining = 0, and leaves the chain and the mempool as
\* they were.
C12_UnknownHashGivesNothing ==
  [][(/\ ret'.op = "get_item_ids"
      /\ ret'.arg[1].item_type = block_message_type
      /\ ret'.arg[1].item_hash # ZeroHash
      /\ ~HasBlock(chain, ret'.arg[1].item_hash)
      /\ _chain_db # NULL) =>
       /\ ret'.status = "ok" /\ ~ret'.asserted
       /\ ret'.value = <<>> /\ ret'.remaining = 0
       /\ chain' = chain /\ _chain_db' = _chain_db
       /\ _pending_trxs' = _pending_trxs]_vars

\* C12 witness: a query from an unknown hash, asking for ids, on a client that
\* holds blocks and a pending transaction
C12_Witness ==
  /\ ret.op = "get_item_ids" /\ ret.status = "ok"
  /\ ret.arg[1] = [item_type |-> block_message_type, item_hash |-> <<"blk">>]
  /\ ret.arg[2] > 0
  /\ Len(chain) >= 2 /\ _pending_trxs # EmptyMap
  /\ ret.value = <<>> /\ ret.remaining = 0

\* C13: when get_item((TRX, id)) has run with id a key of the mempool, it
\* returned a trx_message holding the mempool's transaction; and get_item
\* throws only for a transaction id that is not in the mempool, a block hash
\* the chain does not hold, or an unknown item type.
C13_GetItemServesMempool ==
  ret.op = "get_item" =>
     /\ (ret.arg.item_type = trx_message_type /\ ret.arg.item_hash \in DOMAIN _pending_trxs) =>
          /\ ret.status = "ok"
          /\ ret.value = [msg_type |-> trx_message_type,
                          trx |-> _pending_trxs[ret.arg.item_hash]]
     /\ ret.status = "throw" =>
          \/ ret.arg.item_type = trx_message_type /\ ret.arg.item_hash \notin DOMAIN _pending_trxs
          \/ ret.arg.item_type = block_message_type /\ ~HasBlock(chain, ret.arg.item_hash)
          \/ ret.arg.item_type \notin {block_message_type, trx_message_type}

\* a trustee_loop task has been started and has not ended
LoopRunning == \E i \in 1..MaxRuns : task[i].pc \in {"start", "sleep", "ready"}

\* C14: a trustee pass attempts production only when the mempool is not empty
\* and more than 30 seconds have passed since _last_block; it hands no block
\* to a transport while the mempool is empty; and a pass that produces a
\* block does so more than 30 seconds after the previous production.
C14_ProductionIsGated ==
  [][ret'.op = "trustee_loop" =>
       /\ ret'.tick \in {"produced", "failed"} =>
            (_pending_trxs # EmptyMap /\ now - _last_block > GateSeconds)
       /\ ret'.sent # <<>> => _pending_trxs # EmptyMap
       /\ (ret'.tick = "produced" /\ last_produced # NoBlock) =>
            now - last_produced.at > GateSeconds]_vars

\* C16: after every step a bound wallet implies a bound chain and a started
\* trustee loop implies a bound wallet; a set_chain or set_wallet step taken
\* while a trustee loop is running changes neither binding; and set_wallet
\* with no chain bound fails and leaves the wallet unbound.
C16_LifecycleOrder ==
  [][/\ _wallet' # NULL => _chain_db' # NULL
     /\ valid' > 0 => _wallet' # NULL
     /\ (LoopRunning /\ ret'.op \in {"set_chain", "set_wallet"}) =>
          (_chain_db' = _chain_db /\ _wallet' = _wallet)
     /\ (ret'.op = "set_wallet" /\ _chain_db = NULL) =>
          (ret'.status = "throw" /\ _wallet' = NULL)]_vars

\* the transaction ids of a block
BlockTrxIds(b) == {TrxId(b.trxs[i]) : i \in 1..Len(b.trxs)}

C18_ClientServerTickWaitsForEcho ==
  [][_chain_client =>
       /\ ret'.op = "trustee_loop" =>
            /\ chain' = chain /\ _pending_trxs' = _pending_trxs
            /\ ret'.call = "none"
            /\ ret'.tick = "produced" => ret'.sent = <<"chain_client", ret'.arg>>
       /\ \A id \in DOMAIN _pending_trxs \ DOMAIN _pending_trxs' :
            ret'.op = "on_new_block" /\ ret'.pushed /\ id \in BlockTrxIds(ret'.arg)]_vars

\* C18 witness: the chain client echoed the block the trustee had broadcast,
\* and its transactions left the mempool
C18_Witness ==
  /\ _chain_client /\ ret.op = "on_new_block" /\ ret.status = "ok"
  /\ last_produced # NoBlock /\ ret.arg = last_produced.blk
  /\ ret.erased = 2

\* C19: a trustee pass in which generate_next_block, the broadcast or the
\* self-apply throws leaves its task asleep for the next pass and _last_block
\* at the value the pass compared against; and a pass that finds the mempool
\* non-empty and the gate open attempts production.
C19_FailedTickKeepsLooping ==
  [][\A i \in 1..MaxRuns :
       (/\ ret'.op = "trustee_loop" /\ ret'.status # "crash" /\ ret'.tick # "exit"
        /\ task'[i] # task[i]) =>
          LET last == IF task[i].pc = "start" THEN HeadTimestamp(chain) ELSE _last_block IN
          /\ ret'.tick = "failed" =>
               /\ task'[i].pc = "sleep" /\ canceled' = canceled
               /\ _last_block' = last
          /\ (_pending_trxs # EmptyMap /\ now - last > GateSeconds) =>
               ret'.tick \in {"produced", "failed"}]_vars

\* C19 witness: the self-apply of a pass threw at a time when an earlier pass
\* could already have produced, and _last_block is still the initial one
C19_Witness ==
  /\ ret.op = "trustee_loop" /\ ret.tick = "failed" /\ ret.status = "ok"
  /\ ret.scan = "throw"
  /\ now > 2 * GateSeconds /\ _last_block = 0

\* C15: once the destructor has canceled the trustee future it eventually
\* returns; it has returned only if the task of that future has ended; a
\* pass that begins after the cancellation ends the loop without attempting
\* production; and the destructor ends normally whatever the wait throws.
C15_ShutdownStopsTheLoop ==
  /\ (phase = "stopping") ~> (phase = "destroyed")
  /\ []((phase = "destroyed" /\ valid > 0) => task[valid].pc = "done")
  /\ [][(canceled /\ ret'.op = "trustee_loop") =>
          (ret'.tick = "exit" /\ ret'.sent = <<>> /\ ret'.call = "none"
           /\ chain' = chain /\ _pending_trxs' = _pending_trxs)]_vars
  /\ [](ret.op = "shutdown" => ret.status = "ok")

\* C15 witness: the destructor returned after a wait that rethrew the
\* canceled_exception, on a client whose loop had produced a block
C15_Witness ==
  /\ phase = "destroyed" /\ ret.op = "shutdown" /\ ret.value = "canceled_exception"
  /\ valid > 0 /\ task[valid].pc = "done"
  /\ last_produced # NoBlock

\* C20: an entry of the mempool is removed or replaced only in a step that
\* runs on_new_block, to its normal end, on a block that holds the entry's
\* transaction id.
C20_OnlyAppliedBlocksRemove ==
  [][ret'.status # "crash" =>
       \A id \in DOMAIN _pending_trxs :
         (id \notin DOMAIN _pending_trxs' \/ _pending_trxs'[id] # _pending_trxs[id]) =>
           /\ RanOnNewBlock' /\ ret'.status = "ok"
           /\ id \in BlockTrxIds(ret'.arg)]_vars

====
